---------------------------- MODULE Spec2Model ----------------------------
(***************************************************************************)
(* A model of the MNIST active-learning script                             *)
(* (mnist_bayesian_al_ssl_clustering.py) and of the stacked deep           *)
(* generative model (src/ssl_vae/dgm.py).                                  *)
(*                                                                         *)
(* An example (an image) is modelled by its identity: its 1-based position *)
(* in the loaded data set.  Arrays are sequences; numpy's 0-based indices  *)
(* are modelled by 1-based positions.  A label is an integer; after        *)
(* keras.utils.to_categorical a label is a one-hot row, modelled as a      *)
(* function from the classes 0..num_classes-1 to {0, 1}.                   *)
(***************************************************************************)
EXTENDS Integers, Sequences, FiniteSets

VARIABLES
    pc,                      \* position of the script
    x_train, y_train,        \* training examples and their labels
    x_valid, y_valid,        \* validation examples and their labels
    x_pool, y_pool,          \* pool examples and the labels the oracle sees
    oracle,                  \* the data KNOracle was fitted on
    model,                   \* the classifier in the variable `model`
    models_built,            \* how many Sequential() objects were constructed
    i,                       \* the acquisition iteration
    pool_subset_dropout, X_Pool_Dropout, y_Pool_Dropout,
    U_X, x_pool_index, Pooled_X, Pooled_Y, index_unknown_to_oracle,
    oracle_answer,           \* what the oracle returned for the last batch
    delete_Pool_X, delete_Pool_Y, delete_Pool_X_Dropout, delete_Pool_Y_Dropout,
    sdgm,                    \* whether the stacked model is constructed
    training,                \* nn.Module.training of every module
    requires_grad            \* requires_grad of every feature-model parameter

dataVars == <<x_train, y_train, x_valid, y_valid, x_pool, y_pool>>
modelVars == <<oracle, model, models_built>>
batchVars == <<pool_subset_dropout, X_Pool_Dropout, y_Pool_Dropout, U_X,
               x_pool_index, Pooled_X, Pooled_Y, index_unknown_to_oracle,
               oracle_answer>>
deleteVars == <<delete_Pool_X, delete_Pool_Y, delete_Pool_X_Dropout,
                delete_Pool_Y_Dropout>>
scriptVars == <<pc, dataVars, modelVars, i, batchVars, deleteVars>>
dgmVars == <<sdgm, training, requires_grad>>
vars == <<scriptVars, dgmVars>>

---------------------------------------------------------------------------
(* Program constants.                                                      *)

num_classes == 10
UnknownLabel == 10
PerClass == 2

(* Bounds of the model.  The script's own values are far larger            *)
(* (initial_train_point = 10000, pool_subset = 2000, Queries = 10,         *)
(* acquisition_iterations = 1000, 60000 loaded examples); the model keeps  *)
(* their roles and scales them down.                                       *)
initial_train_point == 20
pool_subset == 3
Queries == 2
acquisition_iterations == 2
MaxScore == 1
MaxValidLen == 15
MaxPrefix == 2
MaxPoolLen == 10
NFeatureParams == 4

(* The loaded examples: the part the initial training set is taken from,   *)
(* a pool of pool_subset points, and the three examples that a data set of *)
(* this size gives to the validation set.                                  *)
NData == initial_train_point + pool_subset + 3

Digits == 0 .. (num_classes - 1)

---------------------------------------------------------------------------
(* numpy and Python primitives.                                            *)

Min(a, b) == IF a < b THEN a ELSE b
Max(a, b) == IF a > b THEN a ELSE b

Range(s) == {s[j] : j \in 1 .. Len(s)}

(* A Python slice bound on a sequence of length n: a negative bound counts *)
(* from the end, and bounds are clipped to 0..n.  Note that -0 is 0.       *)
SliceBound(b, n) == IF b < 0 THEN Max(b + n, 0) ELSE Min(b, n)

(* s[start:stop], start and stop being Python (0-based) slice bounds.      *)
PySlice(s, start, stop) ==
    LET lo == SliceBound(start, Len(s))
        hi == SliceBound(stop, Len(s))
    IN  IF hi <= lo THEN <<>> ELSE SubSeq(s, lo + 1, hi)

(* s[start:] *)
PySliceFrom(s, start) == PySlice(s, start, Len(s))

(* np.round(num/den) for num >= 0, den > 0: round half to even. *)
NpRound(num, den) ==
    LET q == num \div den
        r == num % den
    IN  IF 2 * r > den \/ (2 * r = den /\ q % 2 = 1) THEN q + 1 ELSE q

(* np.where(y == c)[0]: the positions holding c, ascending. *)
WhereEq(y, c) == SelectSeq([j \in 1 .. Len(y) |-> j], LAMBDA j : y[j] = c)

(* a[idx] for an index array idx (fancy indexing: a copy). *)
Gather(a, idx) == [j \in 1 .. Len(idx) |-> a[idx[j]]]

(* s[::-1] *)
Reverse(s) == [j \in 1 .. Len(s) |-> s[Len(s) + 1 - j]]

(* np.delete(a, idx, axis=0): a without the positions in idx. *)
NpDelete(a, idx) ==
    Gather(a, SelectSeq([j \in 1 .. Len(a) |-> j], LAMBDA j : j \notin Range(idx)))

(* One row of keras.utils.to_categorical(y, num_classes). *)
OneHot(l) == [c \in Digits |-> IF c = l THEN 1 ELSE 0]

(* to_categorical indexes a num_classes-wide row by the label: a label     *)
(* outside 0..num_classes-1 raises IndexError.                             *)
CanEncode(y) == \A j \in 1 .. Len(y) : y[j] \in Digits
to_categorical(y) == [j \in 1 .. Len(y) |-> OneHot(y[j])]

---------------------------------------------------------------------------
(* The script's helper functions.                                          *)

get_valid_data(x, y) ==
    LET valid_shape == NpRound(Len(x), 10)
    IN  [x_valid |-> PySliceFrom(x, 0 - valid_shape),
         y_valid |-> PySliceFrom(y, 0 - valid_shape),
         x_train |-> PySlice(x, 0, 0 - valid_shape),
         y_train |-> PySlice(y, 0, 0 - valid_shape)]

get_pool_data(x, y, p) ==
    [x_pool |-> PySliceFrom(x, p),
     y_pool |-> PySliceFrom(y, p),
     x_train |-> PySlice(x, 0, p),
     y_train |-> PySlice(y, 0, p)]

(* A slip: idx_c[-2:, 0], the last two of the class. *)
ClassIdxLast(y, c) == PySliceFrom(WhereEq(y, c), 0 - PerClass)

(* idx_c = np.array(np.where(y_train == c)).T ; idx_c = idx_c[0:2, 0] *)
ClassIdx(y, c) == PySlice(WhereEq(y, c), 0, PerClass)

RECURSIVE UniformIdx(_, _)
(* The concatenation of idx_c, idx_(c+1), ..., idx_9. *)
UniformIdx(y, c) ==
    IF c > 9 THEN <<>> ELSE ClassIdx(y, c) \o UniformIdx(y, c + 1)

get_uniform_training_data(x, y) ==
    [x_train |-> Gather(x, UniformIdx(y, 0)),
     y_train |-> Gather(y, UniformIdx(y, 0))]

(* z = np.arange(round(n*0.5)); shuffle(z); y_pool[z] = 10.  The shuffle   *)
(* permutes z and the assignment stores the same value at every position   *)
(* of z, so the result does not depend on the permutation.                 *)
RemovedCount(n) == NpRound(n, 2)
remove_pool_labels_for_oracle(x, y) ==
    [j \in 1 .. Len(y) |-> IF j <= RemovedCount(Len(x)) THEN UnknownLabel ELSE y[j]]

(* A slip: only the first unknown position. *)
FirstUnknownOnly(Y) == PySlice(WhereEq(Y, UnknownLabel), 0, 1)

(* np.where(Pooled_Y == 10)[0] *)
get_pool_index_unknown_to_oracle(Y) == WhereEq(Y, UnknownLabel)

---------------------------------------------------------------------------
(* The classifier.  Sequential() constructs a new, unfitted object; fit    *)
(* trains the object it is called on and records what it was trained on.   *)

NoModel == [id |-> 0, fit_calls |-> 0, fit_x |-> <<>>, fit_y |-> <<>>]
Sequential(n) == [id |-> n, fit_calls |-> 0, fit_x |-> <<>>, fit_y |-> <<>>]
Fit(m, x, y) == [m EXCEPT !.fit_calls = @ + 1, !.fit_x = x, !.fit_y = y]

(* KNOracle(x_pool_with_labels, y_pool_with_labels, ...): the fitted data. *)
NoOracle == [x |-> <<>>, y |-> <<>>]
KNOracle(x, y) == [x |-> x, y |-> y]

(* oracle.assign_nearest_available_label(X): one label per row of X, each  *)
(* the label of fitted points near it, so a label of the fitted data; the  *)
(* same row gets the same label.  The answers are a function of the row.   *)
OracleAnswers(o, X) == [Range(X) -> Range(o.y)]

---------------------------------------------------------------------------
(* Initial states.                                                         *)

NoBatch ==
    /\ pool_subset_dropout = <<>> /\ X_Pool_Dropout = <<>> /\ y_Pool_Dropout = <<>>
    /\ U_X = <<>> /\ x_pool_index = <<>> /\ Pooled_X = <<>> /\ Pooled_Y = <<>>
    /\ index_unknown_to_oracle = <<>> /\ oracle_answer = <<>>
    /\ delete_Pool_X = <<>> /\ delete_Pool_Y = <<>>
    /\ delete_Pool_X_Dropout = <<>> /\ delete_Pool_Y_Dropout = <<>>

NoScriptModel ==
    /\ oracle = NoOracle /\ model = NoModel /\ models_built = 0 /\ i = 0

NoDgm == sdgm = "absent" /\ training = <<>> /\ requires_grad = <<>>

(* The labels of a loaded data set of n examples: the digits in rounds,    *)
(* 0, 1, ..., 9, 0, 1, ...                                                 *)
TrueLabel(j) == (j - 1) % num_classes
LoadedLabels(n) == [j \in 1 .. n |-> TrueLabel(j)]

(* After mnist.load_data() and the reshape, for a data set of n examples. *)
Loaded(n) ==
    /\ pc = "get_valid_data"
    /\ x_train = [j \in 1 .. n |-> j]
    /\ y_train = LoadedLabels(n)
    /\ x_valid = <<>> /\ y_valid = <<>> /\ x_pool = <<>> /\ y_pool = <<>>
    /\ NoScriptModel /\ NoBatch /\ NoDgm

Init == Loaded(NData)

---------------------------------------------------------------------------
(* The script before the acquisition loop.                                 *)

GetValidData ==
    /\ pc = "get_valid_data"
    /\ LET r == get_valid_data(x_train, y_train)
       IN  /\ x_train' = r.x_train /\ y_train' = r.y_train
           /\ x_valid' = r.x_valid /\ y_valid' = r.y_valid
    /\ pc' = "get_pool_data"
    /\ UNCHANGED <<x_pool, y_pool, modelVars, i, batchVars, deleteVars, dgmVars>>

GetPoolData ==
    /\ pc = "get_pool_data"
    /\ LET r == get_pool_data(x_train, y_train, initial_train_point)
       IN  /\ x_train' = r.x_train /\ y_train' = r.y_train
           /\ x_pool' = r.x_pool /\ y_pool' = r.y_pool
    /\ pc' = "get_uniform_training_data"
    /\ UNCHANGED <<x_valid, y_valid, modelVars, i, batchVars, deleteVars, dgmVars>>

GetUniformTrainingData ==
    /\ pc = "get_uniform_training_data"
    /\ LET r == get_uniform_training_data(x_train, y_train)
       IN  x_train' = r.x_train /\ y_train' = r.y_train
    /\ pc' = "remove_pool_labels"
    /\ UNCHANGED <<x_valid, y_valid, x_pool, y_pool, modelVars, i, batchVars,
                   deleteVars, dgmVars>>

(* Lines 227-230.  y_pool is a basic slice (a view) of the loaded label    *)
(* array, so the assignment inside the helper writes through to that       *)
(* array; y_train and y_valid are by now copies or other regions of it.    *)
RemovePoolLabels ==
    /\ pc = "remove_pool_labels"
    /\ LET y == remove_pool_labels_for_oracle(x_pool, y_pool)
           known == SelectSeq([j \in 1 .. Len(y) |-> j],
                              LAMBDA j : y[j] # UnknownLabel)
       IN  /\ y_pool' = y
           /\ oracle' = KNOracle(Gather(x_pool, known), Gather(y, known))
    /\ pc' = "to_categorical"
    /\ UNCHANGED <<x_train, y_train, x_valid, y_valid, x_pool, model,
                   models_built, i, batchVars, deleteVars, dgmVars>>

(* Lines 234-247: the scaling leaves the identity of every example alone;  *)
(* y_train and y_valid become one-hot, y_pool stays integer.               *)
Categorical ==
    /\ pc = "to_categorical"
    /\ IF CanEncode(y_train) /\ CanEncode(y_valid)
       THEN /\ y_train' = to_categorical(y_train)
            /\ y_valid' = to_categorical(y_valid)
            /\ pc' = "fit"
       ELSE /\ UNCHANGED <<y_train, y_valid>>
            /\ pc' = "IndexError"
    /\ UNCHANGED <<x_train, x_valid, x_pool, y_pool, modelVars, i,
                   batchVars, deleteVars, dgmVars>>

(* Lines 259-282: the initial model. *)
InitialFit ==
    /\ pc = "fit"
    /\ model' = Fit(Sequential(models_built + 1), x_train, y_train)
    /\ models_built' = models_built + 1
    /\ pc' = "for"
    /\ UNCHANGED <<dataVars, oracle, i, batchVars, deleteVars, dgmVars>>

---------------------------------------------------------------------------
(* The acquisition loop.                                                   *)

(* random.sample(range(0, n), k): k distinct positions, in any order. *)
RandomSamples(n, k) ==
    {s \in [1 .. k -> 1 .. n] : \A a, b \in 1 .. k : a # b => s[a] # s[b]}

(* The acquisition scores are floating-point numbers computed from the     *)
(* stochastic predictions; 0 * log2(0) makes a score NaN.  A score is      *)
(* modelled by a small integer, and NaN by the integer above them all,     *)
(* which is where numpy's sort puts NaN.                                   *)
NaN == MaxScore + 1
ScoreValues == 0 .. NaN
IsNaN(v) == v = NaN
(* IEEE comparison a < b: false when either side is NaN. *)
FloatLess(a, b) == ~IsNaN(a) /\ ~IsNaN(b) /\ a < b
(* The order numpy sorts by: ascending, NaN last. *)
SortsBefore(a, b) == a <= b

(* a_1d.argsort(): a permutation of the positions that sorts the scores    *)
(* ascending; the default sort is not stable, so ties come in any order.   *)
ArgSorts(U) ==
    {p \in [1 .. Len(U) -> 1 .. Len(U)] :
        /\ \A a, b \in 1 .. Len(U) : a # b => p[a] # p[b]
        /\ \A a \in 1 .. Len(U) - 1 : SortsBefore(U[p[a]], U[p[a + 1]])}

(* Slips: one position too many; the reversal forgotten. *)
TopQueriesOneMore(p) == Reverse(PySliceFrom(p, 0 - (Queries + 1)))
TopQueriesAscending(p) == PySliceFrom(p, 0 - Queries)

(* a_1d.argsort()[-Queries:][::-1] for one outcome p of argsort. *)
TopQueries(p) == Reverse(PySliceFrom(p, 0 - Queries))

(* Y[idx] = vals for an index array idx of distinct positions. *)
AssignAt(Y, idx, vals) ==
    [j \in 1 .. Len(Y) |->
        IF \E k \in 1 .. Len(idx) : idx[k] = j
        THEN vals[CHOOSE k \in 1 .. Len(idx) : idx[k] = j]
        ELSE Y[j]]

ForgetBatch ==
    /\ pool_subset_dropout' = <<>> /\ X_Pool_Dropout' = <<>> /\ y_Pool_Dropout' = <<>>
    /\ U_X' = <<>> /\ x_pool_index' = <<>> /\ Pooled_X' = <<>> /\ Pooled_Y' = <<>>
    /\ index_unknown_to_oracle' = <<>> /\ oracle_answer' = <<>>
    /\ delete_Pool_X' = <<>> /\ delete_Pool_Y' = <<>>
    /\ delete_Pool_X_Dropout' = <<>> /\ delete_Pool_Y_Dropout' = <<>>

(* A slip: the old model is fitted again, no new one is constructed. *)
RetrainedInPlace(m, n, x, y) == Fit(m, x, y)

(* The model built and trained at lines 367-386, given the model in        *)
(* `model` before, the number of the new object and the training set.      *)
Retrained(m, n, x, y) == Fit(Sequential(n), x, y)

(* Lines 292-303. *)
Sample ==
    /\ pc = "for"
    /\ i < acquisition_iterations
    /\ IF pool_subset <= Len(x_pool)
       THEN /\ \E s \in RandomSamples(Len(x_pool), pool_subset) :
                 /\ pool_subset_dropout' = s
                 /\ X_Pool_Dropout' = Gather(x_pool, s)
                 /\ y_Pool_Dropout' = Gather(y_pool, s)
            /\ pc' = "score"
       ELSE /\ UNCHANGED <<pool_subset_dropout, X_Pool_Dropout, y_Pool_Dropout>>
            /\ pc' = "ValueError"
    /\ UNCHANGED <<dataVars, modelVars, i, U_X, x_pool_index, Pooled_X, Pooled_Y,
                   index_unknown_to_oracle, oracle_answer, deleteVars, dgmVars>>

(* Lines 305-329: `model` scores every point of the subset. *)
Score ==
    /\ pc = "score"
    /\ U_X' \in [1 .. Len(X_Pool_Dropout) -> ScoreValues]
    /\ pc' = "select"
    /\ UNCHANGED <<dataVars, modelVars, i, pool_subset_dropout, X_Pool_Dropout,
                   y_Pool_Dropout, x_pool_index, Pooled_X, Pooled_Y,
                   index_unknown_to_oracle, oracle_answer, deleteVars, dgmVars>>

(* A slip: the oracle's labels written in the opposite order. *)
OracleAssignedReversed(Y, X, idx, answer) ==
    AssignAt(Y, idx, [k \in 1 .. Len(idx) |-> answer[X[idx[Len(idx) + 1 - k]]]])

(* Line 349: Pooled_Y[index_unknown_to_oracle] = (the oracle's labels for  *)
(* Pooled_X[index_unknown_to_oracle]), answer being the oracle's label for *)
(* each row.                                                               *)
OracleAssigned(Y, X, idx, answer) ==
    AssignAt(Y, idx, [k \in 1 .. Len(idx) |-> answer[X[idx[k]]]])

(* Lines 331-365: the queries are selected, labelled and moved.  The four  *)
(* delete_ arrays are computed and never read.                             *)
Acquire ==
    /\ pc = "select"
    /\ \E p \in ArgSorts(U_X) :
          LET idx == TopQueries(p)
              X == Gather(X_Pool_Dropout, idx)
              Y == Gather(y_Pool_Dropout, idx)
              unknown == get_pool_index_unknown_to_oracle(Y)
          IN  \E answer \in OracleAnswers(oracle, Gather(X, unknown)) :
                 LET labelled == OracleAssigned(Y, X, unknown, answer)
                 IN  /\ x_pool_index' = idx
                     /\ Pooled_X' = X
                     /\ index_unknown_to_oracle' = unknown
                     /\ oracle_answer' = answer
                     /\ IF CanEncode(labelled)
                        THEN /\ Pooled_Y' = to_categorical(labelled)
                             /\ delete_Pool_X' = NpDelete(x_pool, pool_subset_dropout)
                             /\ delete_Pool_Y' = NpDelete(y_pool, pool_subset_dropout)
                             /\ delete_Pool_X_Dropout' = NpDelete(X_Pool_Dropout, idx)
                             /\ delete_Pool_Y_Dropout' = NpDelete(y_Pool_Dropout, idx)
                             /\ x_pool' = x_pool \o X_Pool_Dropout
                             /\ y_pool' = y_pool \o y_Pool_Dropout
                             /\ x_train' = x_train \o X
                             /\ y_train' = y_train \o to_categorical(labelled)
                             /\ pc' = "retrain"
                        ELSE /\ Pooled_Y' = labelled
                             /\ UNCHANGED <<x_train, y_train, x_pool, y_pool, deleteVars>>
                             /\ pc' = "IndexError"
    /\ UNCHANGED <<x_valid, y_valid, modelVars, i, pool_subset_dropout,
                   X_Pool_Dropout, y_Pool_Dropout, U_X, dgmVars>>

(* Lines 367-388, and the end of the loop body.  Every value the body      *)
(* computed is overwritten by the next iteration before it is read, so the *)
(* model forgets it here.                                                  *)
Retrain ==
    /\ pc = "retrain"
    /\ model' = Retrained(model, models_built + 1, x_train, y_train)
    /\ models_built' = models_built + 1
    /\ i' = i + 1
    /\ ForgetBatch
    /\ pc' = "for"
    /\ UNCHANGED <<dataVars, oracle, dgmVars>>

(* The loop has run acquisition_iterations times: the script ends. *)
Finish ==
    /\ pc = "for"
    /\ i >= acquisition_iterations
    /\ pc' = "done"
    /\ UNCHANGED <<dataVars, modelVars, i, batchVars, deleteVars, dgmVars>>

Next ==
    \/ GetValidData \/ GetPoolData \/ GetUniformTrainingData \/ RemovePoolLabels
    \/ Categorical \/ InitialFit
    \/ Sample \/ Score \/ Acquire \/ Retrain
    \/ Finish

Spec == Init /\ [][Next]_vars

(* The first acquisition of a data set one example larger, whose pool      *)
(* holds two points the oracle knows, with different labels.               *)
InitFirstBatch == Loaded(NData + 1)

NextFirstBatch ==
    \/ GetValidData \/ GetPoolData \/ GetUniformTrainingData \/ RemovePoolLabels
    \/ Categorical \/ InitialFit
    \/ Sample \/ Score \/ Acquire

SpecFirstBatch == InitFirstBatch /\ [][NextFirstBatch]_vars

---------------------------------------------------------------------------
(* The helper functions on their own, each applied to a range of inputs.   *)

(* Label arrays of length n: the digits in rounds, starting at any digit. *)
Rounds(n) == {[j \in 1 .. n |-> (j - 1 + r) % num_classes] : r \in Digits}

HelperCall(at) ==
    /\ pc = at
    /\ x_valid = <<>> /\ y_valid = <<>>
    /\ NoScriptModel /\ NoBatch /\ NoDgm

InitValid ==
    /\ \E n \in 0 .. MaxValidLen :
          /\ x_train = [j \in 1 .. n |-> j]
          /\ y_train \in Rounds(n)
    /\ x_pool = <<>> /\ y_pool = <<>>
    /\ HelperCall("get_valid_data")

SpecValid == InitValid /\ [][GetValidData]_vars

(* Label arrays for get_uniform_training_data: any labels of length up to  *)
(* MaxPrefix, followed by nothing, by two rounds of the digits, or by the  *)
(* digits in pairs (0, 0, 1, 1, ...).                                      *)
Prefixes == UNION {[1 .. n -> Digits] : n \in 0 .. MaxPrefix}
Pairs == [j \in 1 .. PerClass * num_classes |-> (j - 1) \div PerClass]
Tails == {<<>>, LoadedLabels(PerClass * num_classes), Pairs}
UniformInputs == {p \o t : p \in Prefixes, t \in Tails}

InitUniform ==
    /\ y_train \in UniformInputs
    /\ x_train = [j \in 1 .. Len(y_train) |-> j]
    /\ x_pool = <<>> /\ y_pool = <<>>
    /\ HelperCall("get_uniform_training_data")

SpecUniform == InitUniform /\ [][GetUniformTrainingData]_vars

InitRemove ==
    /\ \E n \in 0 .. MaxPoolLen :
          /\ x_pool = [j \in 1 .. n |-> j]
          /\ y_pool \in Rounds(n)
    /\ x_train = <<>> /\ y_train = <<>>
    /\ HelperCall("remove_pool_labels")

SpecRemove == InitRemove /\ [][RemovePoolLabels]_vars

---------------------------------------------------------------------------
(* StackedDeepGenerativeModel (dgm.py).  A module tree of torch: every     *)
(* module has a training flag, every parameter a requires_grad flag, and   *)
(* assigning a module to an attribute of another makes it a child.         *)

FeatureModules == {"features", "features.encoder", "features.decoder"}
OwnModules == {"sdgm", "encoder", "decoder", "classifier"}
Modules == OwnModules \cup FeatureModules
FeatureParams == 1 .. NFeatureParams

(* The children the constructors register: encoder, decoder, classifier    *)
(* (DeepGenerativeModel.__init__) and features (self.features = features). *)
Children(m) ==
    CASE m = "sdgm" -> {"encoder", "decoder", "classifier", "features"}
      [] m = "features" -> {"features.encoder", "features.decoder"}
      [] OTHER -> {}

(* The modules m.train(mode) reaches: m and, recursively, its children.    *)
RECURSIVE Reached(_)
Reached(m) == {m} \cup UNION {Reached(c) : c \in Children(m)}

(* m.train(mode): self.training = mode, then the same for every child. *)
TrainMode(flags, m, mode) ==
    [k \in DOMAIN flags |-> IF k \in Reached(m) THEN mode ELSE flags[k]]

(* A pretrained feature model in any mode, the stacked model not built. *)
InitDgm ==
    /\ sdgm = "absent"
    /\ training \in [FeatureModules -> BOOLEAN]
    /\ requires_grad \in [FeatureParams -> BOOLEAN]
    /\ pc = "dgm"
    /\ x_train = <<>> /\ y_train = <<>> /\ x_valid = <<>> /\ y_valid = <<>>
    /\ x_pool = <<>> /\ y_pool = <<>>
    /\ NoScriptModel /\ NoBatch

(* StackedDeepGenerativeModel.__init__: the modules of the M2 model are    *)
(* new (training = True); the feature model is put in evaluation mode and  *)
(* its parameters are frozen.                                              *)
Construct ==
    /\ sdgm = "absent"
    /\ training' = TrainMode([m \in Modules |->
                                 IF m \in OwnModules THEN TRUE ELSE training[m]],
                             "features", FALSE)
    /\ requires_grad' = [q \in FeatureParams |-> FALSE]
    /\ sdgm' = "constructed"
    /\ UNCHANGED scriptVars

(* model.train(mode) on the stacked model. *)
Train ==
    /\ sdgm = "constructed"
    /\ \E mode \in BOOLEAN : training' = TrainMode(training, "sdgm", mode)
    /\ UNCHANGED <<sdgm, requires_grad, scriptVars>>

SpecDgm == InitDgm /\ [][Construct \/ Train]_vars

---------------------------------------------------------------------------
(* Properties.                                                             *)

IsOneHotDigit(row) == \E d \in Digits : row = OneHot(d)
Count(y, c) == Cardinality({j \in 1 .. Len(y) : y[j] = c})
InitialTrainLen == PerClass * num_classes
InLoop == pc \in {"for", "score", "select", "retrain", "done"}

(* C1: the training set starts with 20 points and every completed          *)
(* iteration adds exactly Queries examples and Queries labels; x_train and *)
(* y_train always have the same length.                                    *)
TrainingSetGrowsByQueries ==
    /\ Len(x_train) = Len(y_train)
    /\ pc \in {"for", "score", "select", "done"} =>
          Len(x_train) = InitialTrainLen + Queries * i
    /\ pc = "retrain" => Len(x_train) = InitialTrainLen + Queries * (i + 1)

TwoIterationsDone ==
    /\ pc = "done" /\ i = acquisition_iterations /\ i >= 2
    /\ Len(y_train) = InitialTrainLen + Queries * acquisition_iterations

(* C2: no sentinel label enters the training set: the one-hot encoding of  *)
(* a batch never meets a label outside 0..9, every label of y_train is the *)
(* one-hot row of a digit, and every queried point whose pool label is the *)
(* sentinel got an answer of the oracle, which is a label of the data the  *)
(* oracle was fitted on, none of them the sentinel.                        *)
NoSentinelInTrainingSet ==
    /\ pc # "IndexError"
    /\ UnknownLabel \notin Range(oracle.y)
    /\ pc \in {"for", "done"} => \A k \in 1 .. Len(y_train) : IsOneHotDigit(y_train[k])
    /\ pc = "retrain" =>
          \A q \in 1 .. Len(x_pool_index) :
             /\ IsOneHotDigit(Pooled_Y[q])
             /\ y_train[Len(y_train) - Len(x_pool_index) + q] = Pooled_Y[q]
             /\ y_Pool_Dropout[x_pool_index[q]] = UnknownLabel =>
                   /\ Pooled_X[q] \in DOMAIN oracle_answer
                   /\ oracle_answer[Pooled_X[q]] \in Range(oracle.y)

SentinelBatchAppended ==
    /\ pc = "retrain" /\ i = 1
    /\ \A q \in 1 .. Len(x_pool_index) :
          y_Pool_Dropout[x_pool_index[q]] = UnknownLabel
    /\ Len(index_unknown_to_oracle) = Queries

(* C3: a queried point whose pool label is not the sentinel is appended    *)
(* with that label, which is its true label; a queried point whose pool    *)
(* label is the sentinel is appended with the oracle's answer for that     *)
(* very point; the oracle is asked about no other point.                   *)
AppendedLabelsAreTrueOrOracle ==
    pc = "retrain" =>
       LET n == Len(x_pool_index)
           base == Len(y_train) - n
           point(q) == X_Pool_Dropout[x_pool_index[q]]
           label(q) == y_Pool_Dropout[x_pool_index[q]]
       IN  /\ DOMAIN oracle_answer =
                 {point(q) : q \in {r \in 1 .. n : label(r) = UnknownLabel}}
           /\ \A q \in 1 .. n :
                 /\ x_train[base + q] = point(q)
                 /\ label(q) # UnknownLabel =>
                       /\ label(q) = TrueLabel(point(q))
                       /\ y_train[base + q] = OneHot(label(q))
                 /\ label(q) = UnknownLabel =>
                       y_train[base + q] = OneHot(oracle_answer[point(q)])

(* A batch of two unknown points the oracle labels differently. *)
TwoDifferentAnswers ==
    /\ pc = "retrain"
    /\ Len(index_unknown_to_oracle) = 2
    /\ oracle_answer[Pooled_X[1]] # oracle_answer[Pooled_X[2]]

AmongFirstOfClass(y, j) == Cardinality({k \in 1 .. j : y[k] = y[j]}) <= PerClass
UniformPost(y, x2, y2) ==
    /\ Len(x2) = Len(y2)
    /\ Len(x2) = Cardinality({j \in 1 .. Len(y) : AmongFirstOfClass(y, j)})
    /\ \A k \in 1 .. Len(x2) :
          /\ x2[k] \in 1 .. Len(y)
          /\ AmongFirstOfClass(y, x2[k])
          /\ y2[k] = y[x2[k]]
    /\ \A a, b \in 1 .. Len(x2) :
          a < b => \/ y2[a] < y2[b]
                   \/ y2[a] = y2[b] /\ x2[a] < x2[b]
    /\ (\A c \in Digits : Count(y, c) >= PerClass) =>
          /\ Len(x2) = InitialTrainLen
          /\ \A c \in Digits : Count(y2, c) = PerClass
(* C5: get_uniform_training_data returns, class by class in increasing     *)
(* order, the first min(2, count) examples of each class in input order,   *)
(* each with its own label; with every class present twice that is 20      *)
(* points, two per class.  (The examples of the input are 1, 2, ..., n.)   *)
UniformTakesFirstTwoPerClass ==
    [][pc = "get_uniform_training_data" => UniformPost(y_train, x_train', y_train')]_vars

(* Twenty points chosen from an input that does not start with them. *)
UniformTwentyChosen ==
    /\ pc = "remove_pool_labels"
    /\ Len(x_train) = InitialTrainLen
    /\ x_train[1] = 3 /\ x_train[2] = 13

(* C6: whenever an iteration starts and scores the pool, `model` is the    *)
(* last model constructed, it was fitted exactly once, and it was fitted   *)
(* on the training set as it is now.                                       *)
ModelIsFreshAndCurrent ==
    pc \in {"for", "score"} =>
       /\ model.id = models_built
       /\ model.fit_calls = 1
       /\ model.fit_x = x_train
       /\ model.fit_y = y_train

SecondIterationScores ==
    /\ pc = "score" /\ i = 1
    /\ Len(model.fit_x) = InitialTrainLen + Queries
    /\ model.id = 2

(* C10: the queried positions are Queries distinct positions of the        *)
(* subset, no unselected position has a strictly higher score than a       *)
(* selected one, and along the list no score is strictly higher than the   *)
(* one before it.                                                          *)
QueriesAreTopScores ==
    pc = "retrain" =>
       LET n == Len(x_pool_index)
           chosen == Range(x_pool_index)
       IN  /\ n = Queries
           /\ Cardinality(chosen) = Queries
           /\ chosen \subseteq 1 .. Len(X_Pool_Dropout)
           /\ \A c \in chosen : \A u \in (1 .. Len(U_X)) \ chosen :
                 ~FloatLess(U_X[c], U_X[u])
           /\ \A a \in 1 .. n - 1 :
                 ~FloatLess(U_X[x_pool_index[a]], U_X[x_pool_index[a + 1]])

(* A batch whose scores differ, the lower one tied with a point left out. *)
DistinctScoresChosen ==
    /\ pc = "retrain"
    /\ FloatLess(U_X[x_pool_index[2]], U_X[x_pool_index[1]])
    /\ \E u \in (1 .. Len(U_X)) \ Range(x_pool_index) :
          U_X[u] = U_X[x_pool_index[2]]

RemovePost(y, y2) ==
    /\ Len(y2) = Len(y)
    /\ Count(y2, UnknownLabel) = NpRound(7 * Len(y), 10)
    /\ \A j \in 1 .. Len(y) : y2[j] # UnknownLabel => y2[j] = y[j]
(* C4: remove_pool_labels_for_oracle replaces the labels of 70% of the     *)
(* pool points (to the nearest point) with the sentinel, a majority of the *)
(* pool, and leaves the other labels unchanged.                            *)
RemovesSeventyPercent ==
    [][pc = "remove_pool_labels" => RemovePost(y_pool, y_pool')]_vars

(* C7: once the stacked model is constructed, the feature model stays in   *)
(* evaluation mode and none of its parameters requires a gradient.         *)
FeaturesStayFrozen ==
    sdgm = "constructed" =>
       /\ \A m \in FeatureModules : training[m] = FALSE
       /\ \A q \in FeatureParams : requires_grad[q] = FALSE

InitialPoolLen == (NData - NpRound(NData, 10)) - initial_train_point
(* C8: after an acquisition the queried points are no longer in the pool,  *)
(* the pool is smaller by Queries entries for every acquisition, and no    *)
(* example is in the training set twice.                                   *)
AcquiredPointsLeavePool ==
    /\ pc = "retrain" =>
          /\ \A q \in 1 .. Len(Pooled_X) : Pooled_X[q] \notin Range(x_pool)
          /\ Len(x_pool) = InitialPoolLen - Queries * (i + 1)
          /\ Len(y_pool) = Len(x_pool)
    /\ InLoop => \A a, b \in 1 .. Len(x_train) : a # b => x_train[a] # x_train[b]

ValidPost(x, y, xt, yt, xv, yv) ==
    LET n == Len(x)
        v == NpRound(n, 10)
    IN  /\ xv = SubSeq(x, n - v + 1, n) /\ yv = SubSeq(y, n - v + 1, n)
        /\ xt = SubSeq(x, 1, n - v) /\ yt = SubSeq(y, 1, n - v)
        /\ xt \o xv = x /\ yt \o yv = y
(* C9: get_valid_data puts the last v = round(0.1 * n) examples in the     *)
(* validation set and the first n - v in the training set, each with its   *)
(* label, also when v = 0.                                                 *)
ValidationIsLastTenth ==
    [][pc = "get_valid_data" =>
          ValidPost(x_train, y_train, x_train', y_train', x_valid', y_valid')]_vars

===========================================================================
